---- MODULE Spec2Model ----
(***************************************************************************)
(* The Enigma Machine of src/src/components/Machine.ts with its Reflector  *)
(* (src/src/components/Reflector.ts) and Stator (src/src/models/           *)
(* ModelA133.ts, third section).  Wheel, Plugboard, the alphabet lookups   *)
(* and the helpers of '../common' are imported by these files but are not  *)
(* part of the sources at hand; they are modelled from their description.  *)
(*                                                                         *)
(* JavaScript arrays are functions over 0..n-1, so indices read as in the  *)
(* code.  Strings are sequences of one-character strings.                  *)
(***************************************************************************)
EXTENDS Integers, Sequences, FiniteSets, TLC

VARIABLES
    alphabet,     \* Machine.alphabet
    entryWheel,   \* Machine.entryWheel : Stator
    wheels,       \* Machine.wheels : Array<Wheel>, index 0 is the right-most
    reflector,    \* Machine.reflector : null | Reflector
    plugboard,    \* Machine.plugboard : null | Plugboard
    ret,          \* the last call: its name, arguments and what it returned or raised
    pre           \* the positions as they stood when the last call was made

vars == <<alphabet, entryWheel, wheels, reflector, plugboard, ret, pre>>

(***************************************************************************)
(* Bounds of the exploration.                                              *)
(***************************************************************************)
\* longest message handed to processMessage
MaxMsgLen == 2
\* Reflector.setup and Reflector.advance are called with -MaxArg and N+MaxArg
MaxArg == 1

(***************************************************************************)
(* Arrays and strings.                                                     *)
(***************************************************************************)
Arr(s) == [i \in 0..(Len(s) - 1) |-> s[i + 1]]

ArrLen(a) == Cardinality(DOMAIN a)

\* the absent component of a Machine
null == [null |-> TRUE]

\* what a function without a return statement yields
undefined == [undefined |-> TRUE]

\* an Array<Error> that a validate() returns
Errors(list) == [errors |-> list]

\* String.prototype.toUpperCase on the characters the model feeds in
toUpperCase(c) ==
    CASE c = "a" -> "A"
      [] c = "b" -> "B"
      [] c = "c" -> "C"
      [] c = "x" -> "X"
      [] OTHER -> c

\* String.prototype.indexOf for a single character: -1 when absent
indexOf(str, c) ==
    IF \E k \in 1..Len(str) : str[k] = c
    THEN (CHOOSE k \in 1..Len(str) : str[k] = c /\ \A j \in 1..(k - 1) : str[j] # c) - 1
    ELSE -1

(***************************************************************************)
(* '../common' and '../alphabet'.                                          *)
(***************************************************************************)
\* circular(i, n): i normalised into [0, n) for any integer i
circular(i, n) == ((i % n) + n) % n

\* findDuplicates(arr): one [ind, val] per position whose value already
\* occurred at a lower position, in position order
RECURSIVE findDuplicatesFrom(_, _)
findDuplicatesFrom(arr, ind) ==
    IF ind >= ArrLen(arr) THEN <<>>
    ELSE (IF \E j \in 0..(ind - 1) : arr[j] = arr[ind]
          THEN <<[ind |-> ind, val |-> arr[ind]]>>
          ELSE <<>>) \o findDuplicatesFrom(arr, ind + 1)

findDuplicates(arr) == findDuplicatesFrom(arr, 0)

\* getCharacterIndex(char, alphabet, unknownAs)
getCharacterIndex(char, alpha, unknownAs) ==
    LET ind == indexOf(alpha, toUpperCase(char))
    IN  IF ind # -1 THEN ind ELSE indexOf(alpha, toUpperCase(unknownAs))

\* getCharacterFromIndex(index, alphabet, unknownAs)
getCharacterFromIndex(index, alpha, unknownAs) ==
    IF index \in 0..(Len(alpha) - 1) THEN alpha[index + 1] ELSE unknownAs

(***************************************************************************)
(* Stator.                                                                 *)
(***************************************************************************)
Stator(numChars, map) == [numCharacters |-> numChars, mapping |-> Arr(map)]

\* an encode that looks the index up as it is given: -1 stands for what the
\* array holds outside its bounds
StatorEncodeAsGiven(st, index) ==
    IF index \in DOMAIN st.mapping THEN st.mapping[index] ELSE -1

StatorEncode(st, index) == st.mapping[circular(index, st.numCharacters)]

\* the variant that always returns a list, empty without duplicates
StatorValidateAlwaysList(st) == Errors(findDuplicates(st.mapping))

\* undefined when there is no duplicate, else one Error per finding
StatorValidate(st) ==
    LET dups == findDuplicates(st.mapping)
    IN  IF Len(dups) # 0 THEN Errors(dups) ELSE undefined

(***************************************************************************)
(* Reflector.                                                              *)
(***************************************************************************)
Reflector(numChars, wiring, moving) ==
    [numCharacters |-> numChars, wiring |-> Arr(wiring), moving |-> moving,
     startingPosition |-> 0, position |-> 0, init |-> FALSE]

\* a setup that takes the start position as it is given
ReflectorSetupAsGiven(r, startPosition) ==
    [r EXCEPT !.startingPosition = startPosition, !.position = startPosition,
              !.init = TRUE]

ReflectorSetup(r, startPosition) ==
    LET start == circular(startPosition, r.numCharacters)
    IN  [r EXCEPT !.startingPosition = start, !.position = start, !.init = TRUE]

\* an encode that takes the index as it is, whatever the position
ReflectorEncodeUnturned(r, index) ==
    r.wiring[circular(index, r.numCharacters)]

ReflectorEncode(r, index) ==
    r.wiring[circular(index + r.position, r.numCharacters)]

\* an advance that does not look at the moving flag
ReflectorAdvanceAlways(r, steps) ==
    [r EXCEPT !.position = circular(r.position + steps, r.numCharacters)]

ReflectorAdvance(r, steps) ==
    IF r.moving = FALSE THEN r
    ELSE [r EXCEPT !.position = circular(r.position + steps, r.numCharacters)]

ReflectorValidate(r) ==
    LET dups == findDuplicates(r.wiring)
    IN  IF Len(dups) # 0 THEN Errors(dups) ELSE undefined

(***************************************************************************)
(* Wheel (rotor) and Plugboard.                                            *)
(***************************************************************************)
Wheel(numChars, wiring, notches, start) ==
    [numCharacters |-> numChars, wiring |-> Arr(wiring), notches |-> notches,
     startingPosition |-> circular(start, numChars),
     position |-> circular(start, numChars)]

WheelAdvance(w, steps) ==
    [w EXCEPT !.position = circular(w.position + steps, w.numCharacters)]

WheelAtNotch(w) == w.position \in w.notches

WheelEncode(w, index) ==
    w.wiring[circular(index + w.position, w.numCharacters)]

WheelReset(w) == [w EXCEPT !.position = w.startingPosition]

WheelValidate(w) == Errors(findDuplicates(w.wiring))

Plugboard(numChars, wiring) == [numCharacters |-> numChars, wiring |-> Arr(wiring)]

PlugboardEncode(p, index) == p.wiring[circular(index, p.numCharacters)]

PlugboardValidate(p) == Errors(findDuplicates(p.wiring))

(***************************************************************************)
(* Machine.  A Machine value m is the object's fields; an operation yields *)
(* the Machine after it together with what it returned or raised.          *)
(***************************************************************************)
MachineOf(alpha, etw, whls, ukw, plug) ==
    [alphabet |-> alpha, numCharacters |-> Len(alpha), entryWheel |-> etw,
     wheels |-> whls, reflector |-> ukw, plugboard |-> plug]

\* a TraceStep of an encode, and of an advancement
EncodeStep(op, component, ind, input, output) ==
    [op |-> op, component |-> component, ind |-> ind, input |-> input, output |-> output]

AdvanceStep(op, ind, advanced) == [op |-> op, ind |-> ind, advanced |-> advanced]

\* a call that raised: the Machine as the exception leaves it
Raised(m, error) ==
    [m |-> m, err |-> error, out |-> "", inputIndex |-> -1, outputIndex |-> -1,
     steps |-> <<>>]

\* a reset that sets every wheel up anew at position zero
resetToZero(m) ==
    LET whls == [i \in DOMAIN m.wheels |->
                    [m.wheels[i] EXCEPT !.startingPosition = 0, !.position = 0]]
    IN  [m |-> [m EXCEPT !.wheels = whls],
         err |-> IF m.reflector = null THEN "none" ELSE "TypeError"]

\* Machine.reset: the wheels are reset in order, then reflector?.reset() is
\* called; Reflector defines setup, encode, advance and validate, and no reset,
\* so with a reflector installed that call raises a TypeError
reset(m) ==
    LET whls == [i \in DOMAIN m.wheels |-> WheelReset(m.wheels[i])]
    IN  [m |-> [m EXCEPT !.wheels = whls],
         err |-> IF m.reflector = null THEN "none" ELSE "TypeError"]

\* the variant without the check for the reflector
ReflectorInstalledUnchecked(ukw) == TRUE

\* if(!this.reflector) throw ...
ReflectorInstalled(ukw) == ukw # null

\* char[0].toUpperCase()
Normalize(char) == <<toUpperCase(char[1])>>

\* an index lookup that leaves the fallback of the call out, so that the
\* default 'X' of getCharacterIndex stands in for every unknown symbol
InputIndexDefaultFallback(m, input, unknownAs) ==
    getCharacterIndex(input, m.alphabet, "X")

\* getCharacterIndex(input, this.alphabet, unknownAs)
InputIndex(m, input, unknownAs) ==
    getCharacterIndex(input, m.alphabet, unknownAs)

\* the plugboard, when installed: index and trace step
PlugboardPass(m, op, index) ==
    IF m.plugboard # null
    THEN LET out == PlugboardEncode(m.plugboard, index)
         IN  [index |-> out, steps |-> <<EncodeStep(op, "Plugboard", -1, index, out)>>]
    ELSE [index |-> index, steps |-> <<>>]

\* the entry wheel
StatorPass(m, op, index) ==
    LET out == StatorEncode(m.entryWheel, index)
    IN  [index |-> out, steps |-> <<EncodeStep(op, "Stator", -1, index, out)>>]

\* the variant in which every wheel, the first too, waits for a notch
ShouldAdvanceOnNotchOnly(whls, ind) == WheelAtNotch(whls[IF ind = 0 THEN 0 ELSE ind - 1])

\* whether wheel ind advances: the first always, the others when the wheel to
\* their right is at its notch at the moment the loop reaches them
ShouldAdvance(whls, ind) ==
    IF ind = 0 THEN TRUE ELSE WheelAtNotch(whls[ind - 1])

\* the variant that encodes with the wheel before advancing it
WheelForwardEncodeFirst(whls, ind, index) ==
    LET adv == ShouldAdvance(whls, ind)
        out == WheelEncode(whls[ind], index)
    IN  [wheels |-> IF adv THEN [whls EXCEPT ![ind] = WheelAdvance(@, 1)] ELSE whls,
         index |-> out,
         steps |-> <<AdvanceStep("Wheel Advance", ind, adv),
                     EncodeStep("Encode", "Wheel", ind, index, out)>>]

\* the body of the forEach over the wheels: advance wheel ind, then encode
\* with it
WheelForward(whls, ind, index) ==
    LET adv == ShouldAdvance(whls, ind)
        moved == IF adv THEN [whls EXCEPT ![ind] = WheelAdvance(@, 1)] ELSE whls
        out == WheelEncode(moved[ind], index)
    IN  [wheels |-> moved, index |-> out,
         steps |-> <<AdvanceStep("Wheel Advance", ind, adv),
                     EncodeStep("Encode", "Wheel", ind, index, out)>>]

\* this.wheels.forEach(...)
RECURSIVE WheelsForward(_, _, _, _)
WheelsForward(whls, ind, index, steps) ==
    IF ind >= ArrLen(whls) THEN [wheels |-> whls, index |-> index, steps |-> steps]
    ELSE LET r == WheelForward(whls, ind, index)
         IN  WheelsForward(r.wheels, ind + 1, r.index, steps \o r.steps)

\* a reflector that encodes where it stands and is advanced afterwards
ReflectorPassEncodeFirst(ukw, index) ==
    LET out == ReflectorEncode(ukw, index)
        moved == IF ukw.moving THEN ReflectorAdvance(ukw, 1) ELSE ukw
    IN  [reflector |-> moved, index |-> out,
         steps |-> <<EncodeStep("Encode", "Reflector", -1, index, out)>>
                   \o (IF ukw.moving THEN <<AdvanceStep("Reflector Advance", -1, TRUE)>>
                       ELSE <<>>)]

\* the reflector: advanced first when it moves, then its encode
ReflectorPass(ukw, index) ==
    LET moved == IF ukw.moving THEN ReflectorAdvance(ukw, 1) ELSE ukw
        out == ReflectorEncode(moved, index)
    IN  [reflector |-> moved, index |-> out,
         steps |-> (IF ukw.moving THEN <<AdvanceStep("Reflector Advance", -1, TRUE)>>
                    ELSE <<>>)
                   \o <<EncodeStep("Encode", "Reflector", -1, index, out)>>]

\* forEachReverse(this.wheels, ...): the wheels from the last to the first
RECURSIVE WheelsReverse(_, _, _, _)
WheelsReverse(whls, ind, index, steps) ==
    IF ind < 0 THEN [index |-> index, steps |-> steps]
    ELSE LET out == WheelEncode(whls[ind], index)
         IN  WheelsReverse(whls, ind - 1, out,
                 steps \o <<EncodeStep("Encode Reverse", "Wheel", ind, index, out)>>)

\* Machine.processCharacter(char, unknownAs)
processCharacter(m, char, unknownAs) ==
    IF ~ReflectorInstalled(m.reflector) THEN Raised(m, "NoReflector")
    ELSE IF Len(char) = 0 THEN Raised(m, "TypeError")
    ELSE LET input == Normalize(char) IN
    IF Len(input) = 0 \/ Len(input) > 1 THEN Raised(m, "InputLength")
    ELSE LET inputIndex == InputIndex(m, input[1], unknownAs)
             plugIn == PlugboardPass(m, "Encode", inputIndex)
             statorIn == StatorPass(m, "Encode", plugIn.index)
             fwd == WheelsForward(m.wheels, 0, statorIn.index, <<>>)
             turned == [m EXCEPT !.wheels = fwd.wheels]
         IN  IF m.reflector = null THEN Raised(turned, "TypeError")
             ELSE LET refl == ReflectorPass(m.reflector, fwd.index)
                      back == WheelsReverse(fwd.wheels, ArrLen(fwd.wheels) - 1,
                                            refl.index, <<>>)
                      statorOut == StatorPass(m, "Encode Reverse", back.index)
                      plugOut == PlugboardPass(m, "Encode Reverse", statorOut.index)
                  IN  [m |-> [turned EXCEPT !.reflector = refl.reflector],
                       err |-> "none",
                       out |-> getCharacterFromIndex(plugOut.index, m.alphabet, unknownAs),
                       inputIndex |-> inputIndex,
                       outputIndex |-> plugOut.index,
                       steps |-> plugIn.steps \o statorIn.steps \o fwd.steps
                                 \o refl.steps \o back.steps \o statorOut.steps
                                 \o plugOut.steps]

\* a map that takes the characters of the message from the last to the first
RECURSIVE MapCharactersReversed(_, _, _, _, _, _)
MapCharactersReversed(m, msg, k, unknownAs, results, traces) ==
    IF k > Len(msg)
    THEN [m |-> m, err |-> "none", out |-> results, traces |-> traces]
    ELSE LET r == processCharacter(m, <<msg[Len(msg) + 1 - k]>>, unknownAs)
         IN  IF r.err # "none"
             THEN [m |-> r.m, err |-> r.err, out |-> <<>>, traces |-> <<>>]
             ELSE MapCharactersReversed(r.m, msg, k + 1, unknownAs,
                                        Append(results, r.out), Append(traces, r.steps))

\* msg.split('').map(char => processCharacter(char, unknownAs)): an exception
\* ends the map where it is raised
RECURSIVE MapCharacters(_, _, _, _, _, _)
MapCharacters(m, msg, k, unknownAs, results, traces) ==
    IF k > Len(msg)
    THEN [m |-> m, err |-> "none", out |-> results, traces |-> traces]
    ELSE LET r == processCharacter(m, <<msg[k]>>, unknownAs)
         IN  IF r.err # "none"
             THEN [m |-> r.m, err |-> r.err, out |-> <<>>, traces |-> <<>>]
             ELSE MapCharacters(r.m, msg, k + 1, unknownAs,
                                Append(results, r.out), Append(traces, r.steps))

\* a processMessage that asks for the reflector before it looks at the message
processMessageReflectorFirst(m, msg, unknownAs) ==
    IF m.reflector = null
    THEN [m |-> m, err |-> "NoReflector", out |-> <<>>, traces |-> <<>>]
    ELSE MapCharacters(m, msg, 1, unknownAs, <<>>, <<>>)

\* Machine.processMessage(msg, unknownAs)
processMessage(m, msg, unknownAs) ==
    IF Len(msg) = 0 THEN [m |-> m, err |-> "none", out |-> msg, traces |-> <<>>]
    ELSE MapCharacters(m, msg, 1, unknownAs, <<>>, <<>>)

(***************************************************************************)
(* Machine.validate.                                                       *)
(***************************************************************************)
\* an Error of Machine.validate: the component, the wheel's index (or -1),
\* what is wrong, and for a duplicate the finding of the component
Finding(component, ind, kind, dup) ==
    [component |-> component, ind |-> ind, kind |-> kind, dup |-> dup]

NoDup == [ind |-> -1, val |-> -1]

\* the Errors of a component's own validate(), as Machine.validate lists them
Relabel(component, ind, dups) ==
    [k \in 1..Len(dups) |-> Finding(component, ind, "duplicate", dups[k])]

\* errs.push(...x) raises a TypeError when x is undefined
Spreadable(x) == x # undefined

\* the map over the wheels, flattened
RECURSIVE WheelsFindings(_, _)
WheelsFindings(m, ind) ==
    IF ind >= ArrLen(m.wheels) THEN <<>>
    ELSE LET whl == m.wheels[ind]
             subErrs == IF whl.numCharacters # m.numCharacters
                        THEN <<Finding("wheel", ind, "count", NoDup)>> ELSE <<>>
             valErrs == Relabel("wheel", ind, WheelValidate(whl).errors)
         IN  subErrs \o valErrs \o WheelsFindings(m, ind + 1)

validate(m) ==
    LET etwCount == IF m.entryWheel.numCharacters # m.numCharacters
                    THEN <<Finding("entryWheel", -1, "count", NoDup)>> ELSE <<>>
        etwVal == StatorValidate(m.entryWheel)
        whlErrs == WheelsFindings(m, 0)
        ukwCount == IF m.reflector.numCharacters # m.numCharacters
                    THEN <<Finding("reflector", -1, "count", NoDup)>> ELSE <<>>
        ukwVal == ReflectorValidate(m.reflector)
        plugCount == IF m.plugboard.numCharacters # m.numCharacters
                     THEN <<Finding("plugboard", -1, "count", NoDup)>> ELSE <<>>
        plugErrs == IF m.plugboard # null
                    THEN plugCount
                         \o Relabel("plugboard", -1, PlugboardValidate(m.plugboard).errors)
                    ELSE <<>>
    IN  IF ~Spreadable(etwVal) THEN [err |-> "TypeError", errors |-> <<>>]
        ELSE IF m.reflector # null /\ ~Spreadable(ukwVal)
        THEN [err |-> "TypeError", errors |-> <<>>]
        ELSE [err |-> "none",
              errors |-> etwCount \o Relabel("entryWheel", -1, etwVal.errors)
                         \o whlErrs
                         \o (IF m.reflector # null
                             THEN ukwCount \o Relabel("reflector", -1, ukwVal.errors)
                             ELSE <<Finding("reflector", -1, "missing", NoDup)>>)
                         \o plugErrs]

(***************************************************************************)
(* The machines explored.  Four symbols are the fewest over which a        *)
(* reflector can pair every symbol with another one and a wheel wiring is  *)
(* neither a rotation nor its own inverse.  'X', the default of the        *)
(* unknownAs parameters, is one of the symbols.                            *)
(***************************************************************************)
AlphabetABCX == <<"A", "B", "C", "X">>

NumChars == Len(AlphabetABCX)

ETW == Stator(NumChars, <<0, 1, 2, 3>>)

ETWTurned == Stator(NumChars, <<1, 2, 3, 0>>)

WheelI(start) == Wheel(NumChars, <<2, 0, 3, 1>>, {1}, start)

WheelII(start) == Wheel(NumChars, <<0, 2, 3, 1>>, {0, 2}, start)

WheelIII(start) == Wheel(NumChars, <<3, 1, 0, 2>>, {3}, start)

UKW == Reflector(NumChars, <<1, 0, 3, 2>>, FALSE)

UKWMoving == Reflector(NumChars, <<3, 2, 1, 0>>, TRUE)

Steckered == Plugboard(NumChars, <<2, 1, 0, 3>>)

\* Machines as new Machine(label, alphabet, etw, wheels, ukw, plugboard)
\* leaves them, the wheels already set up to their starting positions
Machines ==
    { MachineOf(AlphabetABCX, ETW, Arr(<<>>), UKW, null),
      MachineOf(AlphabetABCX, ETW, Arr(<<WheelI(0)>>), UKWMoving, Steckered),
      MachineOf(AlphabetABCX, ETW, Arr(<<WheelI(0), WheelII(0)>>), UKW, null),
      MachineOf(AlphabetABCX, ETWTurned, Arr(<<WheelI(3), WheelII(1)>>), UKW, Steckered),
      MachineOf(AlphabetABCX, ETWTurned, Arr(<<WheelII(0), WheelI(2)>>), UKWMoving, null),
      MachineOf(AlphabetABCX, ETW, Arr(<<WheelI(1), WheelII(2)>>), null, null),
      MachineOf(AlphabetABCX, ETW, Arr(<<WheelII(0), WheelI(2), WheelIII(0)>>), UKW,
                Steckered) }

\* the strings handed to processCharacter: empty, single symbols (lower case
\* and outside the alphabet among them) and two symbols
Characters ==
    { <<>>, <<"A">>, <<"B">>, <<"C">>, <<"X">>, <<"b">>, <<"Z">>, <<"A", "B">> }

\* the calls of processCharacter: each string with the default unknownAs,
\* the one outside the alphabet with another fallback as well, and with a
\* fallback that is outside the alphabet too
CharacterCalls ==
    {[char |-> c, unknownAs |-> "X"] : c \in Characters}
        \cup {[char |-> <<"Z">>, unknownAs |-> "A"],
              [char |-> <<"Z">>, unknownAs |-> "Q"]}

\* the messages handed to processMessage: up to MaxMsgLen symbols of the
\* alphabet
MessageSymbols == {"A", "B"}

Messages == UNION {[1..n -> MessageSymbols] : n \in 0..MaxMsgLen}

\* the integers handed to Reflector.setup, encode and advance: below zero,
\* zero, one, and beyond the last index
Arguments == {0 - MaxArg, 0, 1, NumChars + MaxArg}

(***************************************************************************)
(* The state machine.                                                      *)
(***************************************************************************)
Machine == MachineOf(alphabet, entryWheel, wheels, reflector, plugboard)

numCharacters == Len(alphabet)

Positions ==
    [wheels |-> [i \in DOMAIN wheels |-> wheels[i].position],
     reflector |-> IF reflector = null THEN -1 ELSE reflector.position,
     afterReset |-> ret.op = "reset"]

Init ==
    /\ \E m \in Machines :
        /\ alphabet = m.alphabet
        /\ entryWheel = m.entryWheel
        /\ wheels = m.wheels
        /\ reflector = m.reflector
        /\ plugboard = m.plugboard
    /\ ret = [op |-> "new", err |-> "none"]
    /\ pre = [wheels |-> <<>>, reflector |-> -1, afterReset |-> FALSE]

ProcessCharacter(char, unknownAs) ==
    \E r \in {processCharacter(Machine, char, unknownAs)} :
        /\ wheels' = r.m.wheels
        /\ reflector' = r.m.reflector
        /\ ret' = [op |-> "processCharacter", char |-> char, unknownAs |-> unknownAs,
                   err |-> r.err, out |-> r.out, inputIndex |-> r.inputIndex,
                   outputIndex |-> r.outputIndex, steps |-> r.steps]
        /\ pre' = Positions
        /\ UNCHANGED <<alphabet, entryWheel, plugboard>>

ProcessMessage(msg) ==
    \E r \in {processMessage(Machine, msg, "X")} :
        /\ wheels' = r.m.wheels
        /\ reflector' = r.m.reflector
        /\ ret' = [op |-> "processMessage", msg |-> msg, unknownAs |-> "X",
                   err |-> r.err, out |-> r.out, traces |-> r.traces]
        /\ pre' = Positions
        /\ UNCHANGED <<alphabet, entryWheel, plugboard>>

Reset ==
    \E r \in {reset(Machine)} :
        /\ wheels' = r.m.wheels
        /\ reflector' = r.m.reflector
        /\ ret' = [op |-> "reset", err |-> r.err]
        /\ pre' = Positions
        /\ UNCHANGED <<alphabet, entryWheel, plugboard>>

SetupReflector(startPosition) ==
    /\ reflector # null
    /\ reflector' = ReflectorSetup(reflector, startPosition)
    /\ ret' = [op |-> "Reflector.setup", startPosition |-> startPosition, err |-> "none"]
    /\ pre' = Positions
    /\ UNCHANGED <<alphabet, entryWheel, wheels, plugboard>>

AdvanceReflector(steps) ==
    /\ reflector # null
    /\ reflector' = ReflectorAdvance(reflector, steps)
    /\ ret' = [op |-> "Reflector.advance", steps |-> steps, err |-> "none"]
    /\ pre' = Positions
    /\ UNCHANGED <<alphabet, entryWheel, wheels, plugboard>>

EncodeReflector(index) ==
    /\ reflector # null
    /\ ret' = [op |-> "Reflector.encode", index |-> index, err |-> "none",
               out |-> ReflectorEncode(reflector, index)]
    /\ pre' = Positions
    /\ UNCHANGED <<alphabet, entryWheel, wheels, reflector, plugboard>>

Next ==
    \/ \E call \in CharacterCalls : ProcessCharacter(call.char, call.unknownAs)
    \/ \E msg \in Messages : ProcessMessage(msg)
    \/ Reset
    \/ \E startPosition \in Arguments : SetupReflector(startPosition)
    \/ \E steps \in Arguments : AdvanceReflector(steps)
    \/ \E index \in Arguments : EncodeReflector(index)

Spec == Init /\ [][Next]_vars

(***************************************************************************)
(* The validation of assemblies, faulty ones among them: validate() of the *)
(* Machine, of its entry wheel and of its reflector.                       *)
(***************************************************************************)
ValidateEntryWheels ==
    { ETW, Stator(NumChars, <<0, 0, 1, 1>>), Stator(NumChars - 1, <<2, 0, 1>>),
      Stator(NumChars - 1, <<1, 1, 1>>) }

ValidateWheels ==
    { Arr(<<>>), Arr(<<WheelI(0)>>),
      Arr(<<WheelI(0), Wheel(NumChars, <<2, 0, 2, 0>>, {1}, 0)>>),
      Arr(<<Wheel(NumChars - 1, <<1, 2, 0>>, {0}, 0), WheelII(0)>>) }

ValidateReflectors ==
    { null, UKW, UKWMoving, Reflector(NumChars, <<1, 0, 1, 0>>, FALSE),
      Reflector(NumChars - 1, <<1, 0, 2>>, FALSE),
      Reflector(NumChars - 1, <<2, 2, 2>>, TRUE) }

ValidatePlugboards ==
    { null, Steckered, Plugboard(NumChars, <<1, 1, 2, 3>>) }

InitValidate ==
    /\ alphabet = AlphabetABCX
    /\ entryWheel \in ValidateEntryWheels
    /\ wheels \in ValidateWheels
    /\ reflector \in ValidateReflectors
    /\ plugboard \in ValidatePlugboards
    /\ ret = [op |-> "new", err |-> "none"]
    /\ pre = [wheels |-> <<>>, reflector |-> -1, afterReset |-> FALSE]

Validate ==
    \E r \in {validate(Machine)} :
        /\ ret' = [op |-> "validate", err |-> r.err, errors |-> r.errors]
        /\ pre' = Positions
        /\ UNCHANGED <<alphabet, entryWheel, wheels, reflector, plugboard>>

ValidateStator ==
    /\ ret' = [op |-> "Stator.validate", err |-> "none",
               result |-> StatorValidate(entryWheel)]
    /\ pre' = Positions
    /\ UNCHANGED <<alphabet, entryWheel, wheels, reflector, plugboard>>

ValidateReflector ==
    /\ reflector # null
    /\ ret' = [op |-> "Reflector.validate", err |-> "none",
               result |-> ReflectorValidate(reflector)]
    /\ pre' = Positions
    /\ UNCHANGED <<alphabet, entryWheel, wheels, reflector, plugboard>>

NextValidate ==
    \/ Validate
    \/ ValidateStator
    \/ ValidateReflector

SpecValidate == InitValidate /\ [][NextValidate]_vars

(***************************************************************************)
(* What the properties below speak about.                                  *)
(***************************************************************************)
IsPermutation(arr, n) ==
    /\ DOMAIN arr = 0..(n - 1)
    /\ {arr[i] : i \in DOMAIN arr} = 0..(n - 1)

IsSelfInverse(arr) == \A i \in DOMAIN arr : arr[arr[i]] = i

\* all wirings permutations of the Machine's index space, reflector and
\* plugboard their own inverse, a reflector installed
ValidMachine(m) ==
    /\ m.entryWheel.numCharacters = m.numCharacters
    /\ IsPermutation(m.entryWheel.mapping, m.numCharacters)
    /\ \A i \in DOMAIN m.wheels :
        /\ m.wheels[i].numCharacters = m.numCharacters
        /\ IsPermutation(m.wheels[i].wiring, m.numCharacters)
    /\ m.reflector # null
    /\ m.reflector.numCharacters = m.numCharacters
    /\ IsPermutation(m.reflector.wiring, m.numCharacters)
    /\ IsSelfInverse(m.reflector.wiring)
    /\ m.plugboard # null =>
        /\ m.plugboard.numCharacters = m.numCharacters
        /\ IsPermutation(m.plugboard.wiring, m.numCharacters)
        /\ IsSelfInverse(m.plugboard.wiring)

\* every rotor and the reflector at their starting positions
AtStart(m) ==
    /\ \A i \in DOMAIN m.wheels : m.wheels[i].position = m.wheels[i].startingPosition
    /\ m.reflector # null => m.reflector.position = m.reflector.startingPosition

\* the last call was made with every rotor and the reflector at their
\* starting positions
CalledAtStart ==
    /\ \A i \in DOMAIN wheels : pre.wheels[i] = wheels[i].startingPosition
    /\ reflector # null => pre.reflector = reflector.startingPosition

\* the Machine of the same configuration, freshly constructed and set up
Fresh(m) ==
    [m EXCEPT !.wheels = [i \in DOMAIN m.wheels |->
                             [m.wheels[i] EXCEPT !.position = m.wheels[i].startingPosition]],
              !.reflector = IF m.reflector = null THEN null
                            ELSE [m.reflector EXCEPT !.position = m.reflector.startingPosition]]

Processed == ret.op \in {"processCharacter", "processMessage"} /\ ret.err = "none"

\* the number of symbols the last call was given to process
Given == IF ret.op = "processMessage" THEN Len(ret.msg) ELSE 1

\* wheel i stands one position further than before the last call
Advanced(i) ==
    wheels[i].position = (pre.wheels[i] + 1) % wheels[i].numCharacters

(***************************************************************************)
(* C1.  Reciprocity: a valid Machine that is reset to its starting         *)
(* configuration before each call gives back the message x when it         *)
(* processes what it made of x.                                            *)
(***************************************************************************)
C1_Reciprocity ==
    (/\ ret.op = "processMessage"
     /\ ret.err = "none"
     /\ ValidMachine(Machine)
     /\ pre.afterReset
     /\ CalledAtStart)
    => LET again == reset(Machine).m
       IN  AtStart(again) => processMessage(again, ret.out, ret.unknownAs).out = ret.msg

(***************************************************************************)
(* C2.  Stepping rule: on a processed symbol rotor i > 0 advances if and   *)
(* only if rotor i-1 was at a notch in the position it held before any     *)
(* rotor advanced for this symbol.                                         *)
(***************************************************************************)
C2_SteppingOnSnapshot ==
    (ret.op = "processCharacter" /\ ret.err = "none")
    => \A i \in DOMAIN wheels :
           i > 0 => (Advanced(i) <=> pre.wheels[i - 1] \in wheels[i - 1].notches)

(***************************************************************************)
(* C3.  Rotor 0 advances exactly once per processed symbol: after L        *)
(* symbols from position p it stands at (p + L) mod N.                     *)
(***************************************************************************)
C3_RotorZeroAdvances ==
    (Processed /\ ArrLen(wheels) > 0)
    => wheels[0].position = (pre.wheels[0] + Given) % wheels[0].numCharacters

\* a message of two symbols went through a stack of rotors in which rotor 1
\* moved as well
C3_Witness ==
    /\ ret.op = "processMessage"
    /\ ret.err = "none"
    /\ Len(ret.msg) = 2
    /\ ArrLen(wheels) >= 2
    /\ wheels[1].position # pre.wheels[1]
    /\ wheels[0].position = (pre.wheels[0] + 2) % wheels[0].numCharacters

(***************************************************************************)
(* C4.  Pipeline order: the index returned for a symbol is the composition *)
(* plugboard, stator, rotors 0..n-1, reflector, rotors n-1..0, stator,     *)
(* plugboard, every rotor and the reflector taken in the position they     *)
(* have once the symbol's advancement is over; the trace lists the         *)
(* substitutions in that order, each feeding the next, and no advancement  *)
(* after the reflector's substitution.                                     *)
(***************************************************************************)
RECURSIVE ThroughRotorsUp(_, _, _)
ThroughRotorsUp(whls, ind, index) ==
    IF ind >= ArrLen(whls) THEN index
    ELSE ThroughRotorsUp(whls, ind + 1, WheelEncode(whls[ind], index))

RECURSIVE ThroughRotorsDown(_, _, _)
ThroughRotorsDown(whls, ind, index) ==
    IF ind < 0 THEN index
    ELSE ThroughRotorsDown(whls, ind - 1, WheelEncode(whls[ind], index))

ThroughPlugboard(m, index) ==
    IF m.plugboard = null THEN index ELSE PlugboardEncode(m.plugboard, index)

Composition(m, index) ==
    ThroughPlugboard(m,
      StatorEncode(m.entryWheel,
        ThroughRotorsDown(m.wheels, ArrLen(m.wheels) - 1,
          ReflectorEncode(m.reflector,
            ThroughRotorsUp(m.wheels, 0,
              StatorEncode(m.entryWheel,
                ThroughPlugboard(m, index)))))))

\* the components of the pipeline in order, as [component, ind]
PipelineOrder(m) ==
    LET n == ArrLen(m.wheels)
        plug == IF m.plugboard = null THEN <<>> ELSE <<[component |-> "Plugboard", ind |-> -1]>>
        stator == <<[component |-> "Stator", ind |-> -1]>>
        up == [k \in 1..n |-> [component |-> "Wheel", ind |-> k - 1]]
        down == [k \in 1..n |-> [component |-> "Wheel", ind |-> n - k]]
    IN  plug \o stator \o up \o <<[component |-> "Reflector", ind |-> -1]>> \o down
        \o stator \o plug

IsEncode(step) == step.op \in {"Encode", "Encode Reverse"}

Encodes(steps) == SelectSeq(steps, IsEncode)

C4_PipelineOrder ==
    (ret.op = "processCharacter" /\ ret.err = "none")
    => LET enc == Encodes(ret.steps)
       IN  /\ ret.outputIndex = Composition(Machine, ret.inputIndex)
           /\ [k \in 1..Len(enc) |-> [component |-> enc[k].component, ind |-> enc[k].ind]]
                  = PipelineOrder(Machine)
           /\ enc[1].input = ret.inputIndex
           /\ \A k \in 1..(Len(enc) - 1) : enc[k + 1].input = enc[k].output
           /\ enc[Len(enc)].output = ret.outputIndex
           /\ \A k \in 1..Len(enc) :
                  enc[k].component = "Wheel"
                  => enc[k].output = WheelEncode(wheels[enc[k].ind], enc[k].input)
           /\ \A j, k \in 1..Len(ret.steps) :
                  (ret.steps[j].op = "Encode" /\ ret.steps[j].component = "Reflector"
                   /\ k > j)
                  => IsEncode(ret.steps[k])

\* a symbol went through the plugboard and two or more rotors of which the
\* second advanced as well, and came out as another symbol
C4_Witness ==
    /\ ret.op = "processCharacter"
    /\ ret.err = "none"
    /\ plugboard # null
    /\ ArrLen(wheels) >= 2
    /\ wheels[1].position # pre.wheels[1]
    /\ ret.outputIndex = Composition(Machine, ret.inputIndex)
    /\ ret.outputIndex # ret.inputIndex

(***************************************************************************)
(* C5.  reset() completes without error and leaves every rotor and the     *)
(* reflector at their starting positions.                                  *)
(***************************************************************************)
C5_ResetRestores ==
    ret.op = "reset" => (ret.err = "none" /\ AtStart(Machine))

(***************************************************************************)
(* C6.  Idempotent reset: reset() and then processMessage(m) leaves every  *)
(* rotor and the reflector where processing m leaves a freshly constructed *)
(* and set-up Machine of the same configuration.                           *)
(***************************************************************************)
C6_ResetIdempotent ==
    (ret.op = "processMessage" /\ ret.err = "none" /\ Len(ret.msg) > 0 /\ pre.afterReset)
    => LET fresh == processMessage(Fresh(Machine), ret.msg, ret.unknownAs).m
       IN  /\ \A i \in DOMAIN wheels : wheels[i].position = fresh.wheels[i].position
           /\ reflector # null => reflector.position = fresh.reflector.position

(***************************************************************************)
(* C7.  Machine.validate() never raises and returns the complete list of   *)
(* findings: empty for an assembly without fault, and with the finding of  *)
(* every faulty component otherwise.                                       *)
(***************************************************************************)
HasFinding(errors, component, kind) ==
    \E k \in 1..Len(errors) : errors[k].component = component /\ errors[k].kind = kind

HasDuplicates(arr) == \E i, j \in DOMAIN arr : i < j /\ arr[i] = arr[j]

Faultless(m) ==
    /\ m.entryWheel.numCharacters = m.numCharacters
    /\ ~HasDuplicates(m.entryWheel.mapping)
    /\ \A i \in DOMAIN m.wheels :
        m.wheels[i].numCharacters = m.numCharacters /\ ~HasDuplicates(m.wheels[i].wiring)
    /\ m.reflector # null
    /\ m.reflector.numCharacters = m.numCharacters
    /\ ~HasDuplicates(m.reflector.wiring)
    /\ m.plugboard # null =>
        m.plugboard.numCharacters = m.numCharacters /\ ~HasDuplicates(m.plugboard.wiring)

C7_ValidateComplete ==
    ret.op = "validate"
    => /\ ret.err = "none"
       /\ Faultless(Machine) <=> ret.errors = <<>>
       /\ entryWheel.numCharacters # numCharacters
              => HasFinding(ret.errors, "entryWheel", "count")
       /\ HasDuplicates(entryWheel.mapping)
              => HasFinding(ret.errors, "entryWheel", "duplicate")
       /\ reflector = null => HasFinding(ret.errors, "reflector", "missing")

(***************************************************************************)
(* C8.  validate() of a Stator or Reflector whose table has no duplicate   *)
(* target returns an empty list of findings, and otherwise one finding per *)
(* duplicate occurrence.                                                   *)
(***************************************************************************)
\* the positions whose value stands at a lower position too
DuplicateOccurrences(arr) ==
    {i \in DOMAIN arr : \E j \in DOMAIN arr : j < i /\ arr[j] = arr[i]}

ValidatedTable ==
    IF ret.op = "Stator.validate" THEN entryWheel.mapping ELSE reflector.wiring

ComponentValidated == ret.op \in {"Stator.validate", "Reflector.validate"}

C8_EmptyListWithoutDuplicates ==
    ComponentValidated
    => /\ ret.result # undefined
       /\ Len(ret.result.errors) = Cardinality(DuplicateOccurrences(ValidatedTable))

\* as amended: without duplicates validate() returns undefined, no list;
\* with duplicates it returns a list of one finding per duplicate occurrence
C8_UndefinedWithoutDuplicates ==
    ComponentValidated
    => IF DuplicateOccurrences(ValidatedTable) = {}
       THEN ret.result = undefined
       ELSE /\ ret.result # undefined
            /\ Len(ret.result.errors) = Cardinality(DuplicateOccurrences(ValidatedTable))
            /\ {ret.result.errors[k].ind : k \in 1..Len(ret.result.errors)}
                   = DuplicateOccurrences(ValidatedTable)

\* both outcomes have been seen on an entry wheel: this one is the list of
\* two findings for a table with two repeated targets
C8_Witness ==
    /\ ret.op = "Stator.validate"
    /\ ret.result # undefined
    /\ Len(ret.result.errors) = 2
    /\ numCharacters = entryWheel.numCharacters

(***************************************************************************)
(* C9.  processCharacter given the empty string or more than one symbol    *)
(* raises the input-length error instead of returning a symbol.            *)
(***************************************************************************)
C9_InputLengthError ==
    (ret.op = "processCharacter" /\ reflector # null /\ Len(ret.char) # 1)
    => ret.err = "InputLength"

(***************************************************************************)
(* C10.  Without a reflector installed processCharacter, and               *)
(* processMessage of a non-empty message, fail with the missing-reflector  *)
(* error and leave every rotor where it was.                               *)
(***************************************************************************)
C10_NoReflectorFailsFirst ==
    (/\ ret.op \in {"processCharacter", "processMessage"}
     /\ reflector = null
     /\ ret.op = "processMessage" => Len(ret.msg) > 0)
    => /\ ret.err = "NoReflector"
       /\ \A i \in DOMAIN wheels : wheels[i].position = pre.wheels[i]

\* a message of two symbols was refused by a Machine of two rotors standing
\* off their zero positions
C10_Witness ==
    /\ ret.op = "processMessage"
    /\ reflector = null
    /\ Len(ret.msg) = 2
    /\ ret.err = "NoReflector"
    /\ ArrLen(wheels) = 2
    /\ \A i \in DOMAIN wheels : wheels[i].position = pre.wheels[i] /\ pre.wheels[i] # 0

(***************************************************************************)
(* C11.  processMessage of the empty message returns the empty message    *)
(* and an empty list of traces without raising, on every Machine, the one  *)
(* without a reflector included, and leaves every rotor and the reflector  *)
(* where they were.                                                        *)
(***************************************************************************)
C11_EmptyMessage ==
    (ret.op = "processMessage" /\ Len(ret.msg) = 0)
    => /\ ret.err = "none"
       /\ ret.out = <<>>
       /\ ret.traces = <<>>
       /\ Positions.wheels = pre.wheels
       /\ Positions.reflector = pre.reflector

\* the empty message was given to a Machine without a reflector whose rotors
\* stand off their zero positions
C11_Witness ==
    /\ ret.op = "processMessage"
    /\ Len(ret.msg) = 0
    /\ reflector = null
    /\ ret.err = "none"
    /\ \E i \in DOMAIN wheels : wheels[i].position # 0

(***************************************************************************)
(* C12.  A reflector that is not moving stands where setup put it, or at   *)
(* zero when setup was never called: no call of advance and no processed   *)
(* symbol changes its position.                                            *)
(***************************************************************************)
C12_StaticReflectorStays ==
    (reflector # null /\ reflector.moving = FALSE)
    => /\ reflector.position = reflector.startingPosition
       /\ reflector.init = FALSE => reflector.position = 0
       /\ ret.op \in {"Reflector.advance", "processCharacter", "processMessage"}
          => reflector.position = pre.reflector

\* advance was called with a step count other than zero on a reflector that
\* is not moving and that setup had put off its zero position
C12_Witness ==
    /\ reflector # null
    /\ reflector.moving = FALSE
    /\ ret.op = "Reflector.advance"
    /\ ret.steps # 0
    /\ reflector.init
    /\ reflector.position # 0
    /\ reflector.position = pre.reflector

\* the Machine as it stood before the last call: the positions of pre put
\* back into the components
Before ==
    [Machine EXCEPT
        !.wheels = [i \in DOMAIN wheels |->
                        [wheels[i] EXCEPT !.position = pre.wheels[i]]],
        !.reflector = IF reflector = null THEN null
                      ELSE [reflector EXCEPT !.position = pre.reflector]]

PositionsOf(m) ==
    [wheels |-> [i \in DOMAIN m.wheels |-> m.wheels[i].position],
     reflector |-> IF m.reflector = null THEN -1 ELSE m.reflector.position]

(***************************************************************************)
(* C13.  A symbol outside the alphabet, given with the fallback f, is      *)
(* processed without an error and gives the output symbol and the rotor    *)
(* and reflector positions that processCharacter(f, f) gives from the same *)
(* state.                                                                  *)
(***************************************************************************)
C13_UnknownSymbolFallback ==
    (/\ ret.op = "processCharacter"
     /\ reflector # null
     /\ Len(ret.char) = 1
     /\ indexOf(alphabet, toUpperCase(ret.char[1])) = -1)
    => /\ ret.err = "none"
       /\ LET fallback == processCharacter(Before, <<ret.unknownAs>>, ret.unknownAs)
          IN  /\ fallback.err = "none"
              /\ ret.out = fallback.out
              /\ ret.inputIndex = indexOf(alphabet, ret.unknownAs)
              /\ PositionsOf(fallback.m) = PositionsOf(Machine)

\* 'Z' was given with the fallback 'A' to a Machine of two rotors and a
\* moving reflector, and both rotors and the reflector turned
C13_Witness ==
    /\ ret.op = "processCharacter"
    /\ ret.char = <<"Z">>
    /\ ret.unknownAs = "A"
    /\ ret.err = "none"
    /\ reflector # null
    /\ reflector.position # pre.reflector
    /\ ArrLen(wheels) = 2
    /\ \A i \in DOMAIN wheels : wheels[i].position # pre.wheels[i]

(***************************************************************************)
(* Construction.  The constructors test their arguments in order and raise *)
(* a TypeError at the first one they refuse; a constructor that raised     *)
(* yields no object.                                                       *)
(***************************************************************************)
\* throw new TypeError(...) in a constructor: param is the refused parameter
Thrown(param) == [err |-> "TypeError", object |-> null, param |-> param]

Constructed(object) == [err |-> "none", object |-> object, param |-> -1]

\* new Stator(label, numChars, map)
NewStator(label, numChars, map) ==
    IF label = "" THEN Thrown(1)
    ELSE IF numChars <= 0 THEN Thrown(2)
    ELSE IF Len(map) # numChars THEN Thrown(3)
    ELSE Constructed(Stator(numChars, map))

\* a Reflector constructor that takes any wiring array
NewReflectorAnyWiring(label, numChars, wiring, moving) ==
    IF label = "" THEN Thrown(1)
    ELSE IF numChars <= 0 THEN Thrown(2)
    ELSE Constructed(Reflector(numChars, wiring, moving))

\* new Reflector(label, numChars, wiring, moving)
NewReflector(label, numChars, wiring, moving) ==
    IF label = "" THEN Thrown(1)
    ELSE IF numChars <= 0 THEN Thrown(2)
    ELSE IF Len(wiring) # numChars THEN Thrown(3)
    ELSE Constructed(Reflector(numChars, wiring, moving))

\* new Machine(label, alphabet, etw, wheels, ukw, plugboard)
NewMachine(label, alpha, etw, whls, ukw, plug) ==
    IF label = "" THEN Thrown(0)
    ELSE IF Len(alpha) = 0 THEN Thrown(1)
    ELSE Constructed(MachineOf([i \in 1..Len(alpha) |-> toUpperCase(alpha[i])],
                               etw, whls, ukw, plug))

\* the arguments handed to the constructors: labels, character counts and
\* wiring arrays, refused ones among them
ConstructLabels == {"", "UKW"}

ConstructCounts == {0 - MaxArg, 0, NumChars - 1, NumChars}

ConstructWirings == {<<>>, <<1, 0, 2>>, <<0, 1, 2, 3>>, <<1, 0, 3, 2>>}

ConstructAlphabets == {<<>>, <<"a", "b", "c", "x">>, AlphabetABCX}

ConstructEntryWheels == {ETW, ETWTurned}

ConstructWheels == {Arr(<<>>), Arr(<<WheelI(0)>>)}

ConstructReflectors == {null, UKW}

\* a Machine was constructed from components that were accepted
InitConstruct ==
    /\ \E etw \in ConstructEntryWheels, whls \in ConstructWheels,
          ukw \in ConstructReflectors :
        \E r \in {NewMachine("Machine", AlphabetABCX, etw, whls, ukw, null)} :
            /\ r.err = "none"
            /\ alphabet = r.object.alphabet
            /\ entryWheel = r.object.entryWheel
            /\ wheels = r.object.wheels
            /\ reflector = r.object.reflector
            /\ plugboard = r.object.plugboard
    /\ ret = [op |-> "new", err |-> "none"]
    /\ pre = [wheels |-> <<>>, reflector |-> -1, afterReset |-> FALSE]

ConstructStator(label, numChars, map) ==
    LET r == NewStator(label, numChars, map) IN
        /\ ret' = [op |-> "new Stator", label |-> label, numChars |-> numChars,
                   wiring |-> map, err |-> r.err, param |-> r.param,
                   object |-> r.object]
        /\ pre' = Positions
        /\ UNCHANGED <<alphabet, entryWheel, wheels, reflector, plugboard>>

ConstructReflector(label, numChars, wiring, moving) ==
    LET r == NewReflector(label, numChars, wiring, moving) IN
        /\ ret' = [op |-> "new Reflector", label |-> label, numChars |-> numChars,
                   wiring |-> wiring, err |-> r.err, param |-> r.param,
                   object |-> r.object]
        /\ pre' = Positions
        /\ UNCHANGED <<alphabet, entryWheel, wheels, reflector, plugboard>>

\* the Machine of the state is the last one constructed: a constructor that
\* raised leaves the one there was
ConstructMachine(label, alpha, etw, whls, ukw) ==
    LET r == NewMachine(label, alpha, etw, whls, ukw, null) IN
        /\ ret' = [op |-> "new Machine", label |-> label, alphabet |-> alpha,
                   err |-> r.err, param |-> r.param, object |-> r.object]
        /\ pre' = Positions
        /\ IF r.err = "none"
           THEN /\ alphabet' = r.object.alphabet
                /\ entryWheel' = r.object.entryWheel
                /\ wheels' = r.object.wheels
                /\ reflector' = r.object.reflector
                /\ plugboard' = r.object.plugboard
           ELSE UNCHANGED <<alphabet, entryWheel, wheels, reflector, plugboard>>

NextConstruct ==
    \/ \E label \in ConstructLabels, numChars \in ConstructCounts,
          map \in ConstructWirings : ConstructStator(label, numChars, map)
    \/ \E label \in ConstructLabels, numChars \in ConstructCounts,
          wiring \in ConstructWirings, moving \in BOOLEAN :
            ConstructReflector(label, numChars, wiring, moving)
    \/ \E label \in ConstructLabels, alpha \in ConstructAlphabets,
          etw \in ConstructEntryWheels, whls \in ConstructWheels,
          ukw \in ConstructReflectors :
            ConstructMachine(label, alpha, etw, whls, ukw)

SpecConstruct == InitConstruct /\ [][NextConstruct]_vars

(***************************************************************************)
(* C14.  Constructing a Stator or a Reflector with an empty label, a       *)
(* character count of zero or less, or a wiring array whose length is not  *)
(* the character count raises, and so does constructing a Machine with an  *)
(* empty label or an empty alphabet; a constructor that raised leaves no   *)
(* object behind.                                                          *)
(***************************************************************************)
C14_ConstructionErrors ==
    /\ (/\ ret.op \in {"new Stator", "new Reflector"}
        /\ \/ ret.label = ""
           \/ ret.numChars <= 0
           \/ Len(ret.wiring) # ret.numChars)
       => (ret.err = "TypeError" /\ ret.object = null)
    /\ (/\ ret.op = "new Machine"
        /\ (ret.label = "" \/ Len(ret.alphabet) = 0))
       => (ret.err = "TypeError" /\ ret.object = null)
    /\ ret.op \in {"new Stator", "new Reflector", "new Machine"}
       => (ret.err = "none" <=> ret.object # null)

\* a Reflector was asked for with a label and a positive character count but
\* a wiring array of another length, and the constructor raised
C14_Witness ==
    /\ ret.op = "new Reflector"
    /\ ret.label # ""
    /\ ret.numChars > 0
    /\ Len(ret.wiring) > 0
    /\ Len(ret.wiring) # ret.numChars
    /\ ret.err = "TypeError"
    /\ ret.object = null

(***************************************************************************)
(* The Model M3 (Kriegsmarine): the alphabet A..Z, the wheels I, II, III   *)
(* and the reflectors UKW-B and UKW-C, given as wiring strings and notch   *)
(* symbols and read over the alphabet when the components are built.       *)
(***************************************************************************)
AlphabetABC ==
    <<"A", "B", "C", "D", "E", "F", "G", "H", "I", "J", "K", "L", "M",
      "N", "O", "P", "Q", "R", "S", "T", "U", "V", "W", "X", "Y", "Z">>

\* a wiring string read over an alphabet: the index of each of its symbols
WiringOf(str, alpha) == [k \in 1..Len(str) |-> indexOf(alpha, str[k])]

\* notch symbols read over an alphabet
NotchesOf(symbols, alpha) == {indexOf(alpha, c) : c \in symbols}

M3WiringI ==
    <<"E", "K", "M", "F", "L", "G", "D", "Q", "V", "Z", "N", "T", "O",
      "W", "Y", "H", "X", "U", "S", "P", "A", "I", "B", "R", "C", "J">>

M3WiringII ==
    <<"A", "J", "D", "K", "S", "I", "R", "U", "X", "B", "L", "H", "W",
      "T", "M", "C", "Q", "G", "Z", "N", "P", "Y", "F", "V", "O", "E">>

M3WiringIII ==
    <<"B", "D", "F", "H", "J", "L", "C", "P", "R", "T", "X", "V", "Z",
      "N", "Y", "E", "I", "W", "G", "A", "K", "M", "U", "S", "Q", "O">>

UKWBWiring ==
    <<"Y", "R", "U", "H", "Q", "S", "L", "D", "P", "X", "N", "G", "O",
      "K", "M", "I", "E", "B", "F", "Z", "C", "W", "V", "J", "A", "T">>

\* UKW-C with its last two symbols exchanged
UKWCWiringMistyped ==
    <<"F", "V", "P", "J", "I", "A", "O", "Y", "E", "D", "R", "Z", "X",
      "W", "G", "C", "T", "K", "U", "Q", "S", "B", "N", "M", "L", "H">>

UKWCWiring ==
    <<"F", "V", "P", "J", "I", "A", "O", "Y", "E", "D", "R", "Z", "X",
      "W", "G", "C", "T", "K", "U", "Q", "S", "B", "N", "M", "H", "L">>

M3WheelI ==
    Wheel(Len(AlphabetABC), WiringOf(M3WiringI, AlphabetABC),
          NotchesOf({"Y"}, AlphabetABC), 0)

M3WheelII ==
    Wheel(Len(AlphabetABC), WiringOf(M3WiringII, AlphabetABC),
          NotchesOf({"M"}, AlphabetABC), 0)

M3WheelIII ==
    Wheel(Len(AlphabetABC), WiringOf(M3WiringIII, AlphabetABC),
          NotchesOf({"D"}, AlphabetABC), 0)

UKWB == Reflector(Len(AlphabetABC), WiringOf(UKWBWiring, AlphabetABC), FALSE)

UKWC == Reflector(Len(AlphabetABC), WiringOf(UKWCWiring, AlphabetABC), FALSE)

\* the entry wheel that maps every index to itself
M3ETW == Stator(Len(AlphabetABC), [k \in 1..Len(AlphabetABC) |-> k - 1])

\* the wheels in the order of Machine.wheels, index 0 the right-most: wheel I
\* on the right and wheel III on the left, and the other way round
M3WheelOrders ==
    { Arr(<<M3WheelI, M3WheelII, M3WheelIII>>),
      Arr(<<M3WheelIII, M3WheelII, M3WheelI>>) }

\* the number of symbols a Model M3 is given between two resets
MaxKeys == 2

InitM3 ==
    /\ alphabet = AlphabetABC
    /\ entryWheel = M3ETW
    /\ wheels \in M3WheelOrders
    /\ reflector \in {UKWB, UKWC}
    /\ plugboard = null
    /\ ret = [op |-> "new", err |-> "none"]
    /\ pre = [wheels |-> <<>>, reflector |-> -1, afterReset |-> FALSE]

KeyM3(char) ==
    /\ wheels[0].position < MaxKeys
    /\ ProcessCharacter(<<char>>, "X")

NextM3 ==
    \/ \E k \in 1..Len(AlphabetABC) : KeyM3(AlphabetABC[k])
    \/ Reset

SpecM3 == InitM3 /\ [][NextM3]_vars

\* the Model M3 of the scenario: wheel I right-most, wheel III left-most,
\* UKW-B, no plugboard
M3Scenario ==
    /\ [i \in DOMAIN wheels |-> WheelReset(wheels[i])]
          = Arr(<<M3WheelI, M3WheelII, M3WheelIII>>)
    /\ reflector = UKWB
    /\ plugboard = null

(***************************************************************************)
(* C16.  The Model M3 with the wheels I, II, III (III left-most, I         *)
(* right-most), UKW-B, the identity entry wheel and no plugboard, all at   *)
(* position 0: processCharacter('A') gives a symbol c, reset() returns,    *)
(* and processCharacter(c) then gives 'A'.                                 *)
(***************************************************************************)
C16_M3RoundTrip ==
    (/\ M3Scenario
     /\ ret.op = "processCharacter"
     /\ ret.char = <<"A">>
     /\ ret.err = "none"
     /\ \A i \in DOMAIN wheels : pre.wheels[i] = 0)
    => LET r == reset(Machine)
           again == processCharacter(r.m, <<ret.out>>, "X")
       IN  /\ r.err = "none"
           /\ again.err = "none"
           /\ again.out = "A"

(***************************************************************************)
(* C17.  The reflector tables UKW-B and UKW-C of the Model M3, read over   *)
(* the alphabet A..Z, are permutations of 0..25 and their own inverse:     *)
(* wiring[wiring[i]] = i for every i.                                      *)
(***************************************************************************)
C17_ReflectorsSelfInverse ==
    (reflector # null /\ alphabet = AlphabetABC)
    => /\ reflector \in {UKWB, UKWC}
       /\ IsPermutation(reflector.wiring, Len(AlphabetABC))
       /\ IsSelfInverse(reflector.wiring)

\* a symbol went through a Model M3 with UKW-C installed
C17_Witness ==
    /\ reflector = UKWC
    /\ ret.op = "processCharacter"
    /\ ret.err = "none"
    /\ \E k \in 1..Len(ret.steps) :
          /\ ret.steps[k].op = "Encode"
          /\ ret.steps[k].component = "Reflector"
          /\ reflector.wiring[ret.steps[k].output] = ret.steps[k].input

\* the traces of the symbols of the last call, one per symbol
SymbolTraces == IF ret.op = "processMessage" THEN ret.traces ELSE <<ret.steps>>

IsReflectorAdvance(step) == step.op = "Reflector Advance"

IsReflectorEncode(step) == step.op = "Encode" /\ step.component = "Reflector"

(***************************************************************************)
(* C18.  A moving reflector is advanced once for every processed symbol,   *)
(* after the forward pass of the rotors and before its own encode: L       *)
(* symbols from position p leave it at (p + L) mod N, and the k-th symbol  *)
(* is substituted by the reflector at position (p + k) mod N.              *)
(***************************************************************************)
C18_MovingReflectorAdvance ==
    (Processed /\ reflector # null /\ reflector.moving)
    => /\ reflector.position = (pre.reflector + Given) % reflector.numCharacters
       /\ Len(SymbolTraces) = Given
       /\ \A k \in 1..Given :
            LET steps == SymbolTraces[k]
                at == (pre.reflector + k) % reflector.numCharacters
            IN  /\ Len(SelectSeq(steps, IsReflectorAdvance)) = 1
                /\ \A j \in 1..Len(steps) :
                     IsReflectorAdvance(steps[j])
                     => /\ j < Len(steps)
                        /\ IsReflectorEncode(steps[j + 1])
                        /\ steps[j + 1].output
                             = reflector.wiring[(steps[j + 1].input + at)
                                                    % reflector.numCharacters]
                        /\ \A i \in 1..(j - 1) : steps[i].op # "Encode Reverse"
                        /\ \A i \in 1..Len(steps) :
                             (steps[i].op = "Encode" /\ steps[i].component = "Wheel")
                             => i < j

\* a message of two symbols went through a Machine with a rotor and a moving
\* reflector that stood off its zero position
C18_Witness ==
    /\ ret.op = "processMessage"
    /\ ret.err = "none"
    /\ Len(ret.msg) = 2
    /\ reflector # null
    /\ reflector.moving
    /\ pre.reflector # 0
    /\ ArrLen(wheels) > 0
    /\ reflector.position = (pre.reflector + 2) % reflector.numCharacters

(***************************************************************************)
(* Machines of three rotors whose right-most rotor has one notch, given    *)
(* messages of one symbol more than the alphabet has.                      *)
(***************************************************************************)
CarryMachines ==
    { MachineOf(AlphabetABCX, ETW, Arr(<<w, WheelII(0), WheelIII(0)>>), UKW, null) :
        w \in {WheelI(s) : s \in 0..(NumChars - 1)}
                \cup {WheelIII(s) : s \in 0..(NumChars - 1)} }

CarryMessages == [1..(NumChars + 1) -> MessageSymbols]

InitCarry ==
    /\ \E m \in CarryMachines :
        /\ alphabet = m.alphabet
        /\ entryWheel = m.entryWheel
        /\ wheels = m.wheels
        /\ reflector = m.reflector
        /\ plugboard = m.plugboard
    /\ ret = [op |-> "new", err |-> "none"]
    /\ pre = [wheels |-> <<>>, reflector |-> -1, afterReset |-> FALSE]

NextCarry ==
    \/ \E msg \in CarryMessages : ProcessMessage(msg)
    \/ Reset

SpecCarry == InitCarry /\ [][NextCarry]_vars

\* the symbols of the last message, by their place in it, at which rotor i
\* was advanced
AdvancedAt(i) ==
    {k \in 1..Len(ret.traces) :
        \E j \in 1..Len(ret.traces[k]) :
            ret.traces[k][j] = AdvanceStep("Wheel Advance", i, TRUE)}

(***************************************************************************)
(* C19.  In a Machine of three rotors whose rotor 0 has one notch, N + 1   *)
(* symbols processed from the starting positions change the position of    *)
(* rotor 1 once, and they do so at the symbol before which rotor 0 stood   *)
(* at its notch.                                                           *)
(***************************************************************************)
C19_RotorOneCarry ==
    (/\ ret.op = "processMessage"
     /\ ret.err = "none"
     /\ ArrLen(wheels) = 3
     /\ Cardinality(wheels[0].notches) = 1
     /\ Len(ret.msg) = numCharacters + 1
     /\ CalledAtStart)
    => /\ Cardinality(AdvancedAt(1)) = 1
       /\ wheels[1].position = (pre.wheels[1] + 1) % numCharacters
       /\ \A k \in AdvancedAt(1) :
            (pre.wheels[0] + k - 1) % numCharacters \in wheels[0].notches

\* the remainder of i on division by n, for any integer i: the one r in
\* 0..n-1 that differs from i by a multiple of n
Remainder(i, n) ==
    CHOOSE r \in 0..(n - 1) : \E q \in (0 - (i * i + 1))..(i * i + 1) : i = q * n + r

(***************************************************************************)
(* C20.  Reflector.encode(index) returns wiring[(index + position) mod N], *)
(* the modulo taken into 0..N-1 for every integer index, those below zero  *)
(* and those of N and more included, and leaves the position of the        *)
(* reflector where it was.                                                 *)
(***************************************************************************)
C20_ReflectorEncode ==
    ret.op = "Reflector.encode"
    => /\ ret.out = reflector.wiring[Remainder(ret.index + reflector.position,
                                               reflector.numCharacters)]
       /\ reflector.position = pre.reflector

\* encode was called with an index below zero on a reflector standing off its
\* zero position
C20_Witness ==
    /\ ret.op = "Reflector.encode"
    /\ ret.index < 0
    /\ reflector.position # 0
    /\ ret.out # reflector.wiring[Remainder(ret.index, reflector.numCharacters)]

\* encode was called with an index beyond the last on a moving reflector
\* standing off its zero position
C20_WitnessBeyond ==
    /\ ret.op = "Reflector.encode"
    /\ ret.index >= reflector.numCharacters
    /\ reflector.moving
    /\ reflector.position # 0

(***************************************************************************)
(* C21.  Whatever integers setup and advance are given, and however many   *)
(* symbols are processed, the starting position and the position of the    *)
(* reflector lie in 0..N-1, and right after setup(start) both are start    *)
(* mod N.                                                                  *)
(***************************************************************************)
C21_ReflectorPositionRange ==
    reflector # null
    => /\ reflector.startingPosition \in 0..(reflector.numCharacters - 1)
       /\ reflector.position \in 0..(reflector.numCharacters - 1)
       /\ ret.op = "Reflector.setup"
          => /\ reflector.position = reflector.startingPosition
             /\ reflector.startingPosition
                  = Remainder(ret.startPosition, reflector.numCharacters)

\* setup was called with a start position below zero on a moving reflector
\* that stood off its starting position
C21_Witness ==
    /\ reflector # null
    /\ reflector.moving
    /\ ret.op = "Reflector.setup"
    /\ ret.startPosition < 0
    /\ pre.reflector # reflector.position
    /\ reflector.position = reflector.numCharacters + ret.startPosition

\* what processCharacter returns for the symbols of msg from the k-th on,
\* called one after the other on the Machine m
RECURSIVE CharacterByCharacter(_, _, _, _)
CharacterByCharacter(m, msg, k, unknownAs) ==
    IF k > Len(msg) THEN <<>>
    ELSE LET r == processCharacter(m, <<msg[k]>>, unknownAs)
         IN  <<r>> \o (IF r.err = "none"
                       THEN CharacterByCharacter(r.m, msg, k + 1, unknownAs)
                       ELSE <<>>)

(***************************************************************************)
(* C22.  processMessage of a message that is not empty gives what          *)
(* processCharacter gives for its symbols taken in order from the same     *)
(* state: the same output symbols, as many as the message has, one trace   *)
(* for each symbol in the order of the symbols, and the same positions at  *)
(* the end.                                                                *)
(***************************************************************************)
C22_MessageIsFold ==
    (ret.op = "processMessage" /\ Len(ret.msg) > 0)
    => LET calls == CharacterByCharacter(Before, ret.msg, 1, ret.unknownAs)
           last == calls[Len(calls)]
       IN  /\ ret.err = last.err
           /\ PositionsOf(Machine) = PositionsOf(last.m)
           /\ ret.err = "none"
              => /\ Len(calls) = Len(ret.msg)
                 /\ Len(ret.out) = Len(ret.msg)
                 /\ Len(ret.traces) = Len(ret.msg)
                 /\ \A k \in 1..Len(ret.msg) :
                      /\ ret.out[k] = calls[k].out
                      /\ ret.traces[k] = calls[k].steps

\* a message of two different symbols went through a Machine of two rotors
\* and came out as two different symbols
C22_Witness ==
    /\ ret.op = "processMessage"
    /\ ret.err = "none"
    /\ Len(ret.msg) = 2
    /\ ret.msg[1] # ret.msg[2]
    /\ ArrLen(wheels) = 2
    /\ Len(ret.out) = 2
    /\ ret.out[1] # ret.out[2]
    /\ Len(ret.traces) = 2
    /\ ret.traces[1] # ret.traces[2]

\* a rotor or reflector with its position left out: the fields that
\* construction and setup fixed
Fixed(component) == [component EXCEPT !.position = 0]

\* the step was a call of processCharacter, processMessage or reset
ProcessingOrReset ==
    ret'.op \in {"processCharacter", "processMessage", "reset"}

(***************************************************************************)
(* C23.  processCharacter, processMessage and reset change no wiring       *)
(* table, not the alphabet, no notch set and no starting position of a     *)
(* rotor or of the reflector: positions are all they change, and the       *)
(* stator and the plugboard are left as they were.                         *)
(***************************************************************************)
C23_Frame ==
    [][ProcessingOrReset
       => /\ alphabet' = alphabet
          /\ entryWheel' = entryWheel
          /\ plugboard' = plugboard
          /\ DOMAIN wheels' = DOMAIN wheels
          /\ \A i \in DOMAIN wheels : Fixed(wheels'[i]) = Fixed(wheels[i])
          /\ (reflector = null) <=> (reflector' = null)
          /\ reflector # null => Fixed(reflector') = Fixed(reflector)]_vars

\* reset was called on a Machine with a plugboard and a reflector whose two
\* rotors, set up off position zero, had both turned
C23_Witness ==
    /\ ret.op = "reset"
    /\ plugboard # null
    /\ reflector # null
    /\ ArrLen(wheels) = 2
    /\ \A i \in DOMAIN wheels :
         /\ wheels[i].startingPosition # 0
         /\ wheels[i].position = wheels[i].startingPosition
         /\ pre.wheels[i] # wheels[i].position

\* every component has the Machine's number of characters and a wiring that
\* is a permutation of its indices
PermutationsOfOneSize(m) ==
    /\ m.entryWheel.numCharacters = m.numCharacters
    /\ IsPermutation(m.entryWheel.mapping, m.numCharacters)
    /\ \A i \in DOMAIN m.wheels :
        /\ m.wheels[i].numCharacters = m.numCharacters
        /\ IsPermutation(m.wheels[i].wiring, m.numCharacters)
    /\ m.reflector # null =>
        /\ m.reflector.numCharacters = m.numCharacters
        /\ IsPermutation(m.reflector.wiring, m.numCharacters)
    /\ m.plugboard # null =>
        /\ m.plugboard.numCharacters = m.numCharacters
        /\ IsPermutation(m.plugboard.wiring, m.numCharacters)

\* the symbols the last call returned, one per symbol given
SymbolsReturned == IF ret.op = "processMessage" THEN ret.out ELSE <<ret.out>>

(***************************************************************************)
(* C24.  In a Machine whose components all have N characters and wirings   *)
(* that are permutations of 0..N-1, the index that leaves the plugboard,   *)
(* the stator, every rotor on the way up and back, and the reflector lies  *)
(* in 0..N-1, and the symbol returned is a symbol of the alphabet.         *)
(***************************************************************************)
C24_IndexInRange ==
    (Processed /\ PermutationsOfOneSize(Machine))
    => /\ \A k \in 1..Len(SymbolTraces) :
            \A j \in 1..Len(SymbolTraces[k]) :
                IsEncode(SymbolTraces[k][j])
                => SymbolTraces[k][j].output \in 0..(numCharacters - 1)
       /\ \A k \in 1..Len(SymbolsReturned) :
            \E a \in 1..Len(alphabet) : SymbolsReturned[k] = alphabet[a]
       /\ ret.op = "processCharacter" => ret.outputIndex \in 0..(numCharacters - 1)

\* a symbol outside the alphabet, given with a fallback outside the alphabet,
\* entered a Machine without plugboard with an index below zero and came out
\* as a symbol of the alphabet
C24_Witness ==
    /\ ret.op = "processCharacter"
    /\ ret.err = "none"
    /\ plugboard = null
    /\ ArrLen(wheels) > 0
    /\ ret.inputIndex < 0
    /\ ret.outputIndex \in 0..(numCharacters - 1)
    /\ \E a \in 1..Len(alphabet) : ret.out = alphabet[a]

====
